---- MODULE Spec2Model ----
(***************************************************************************)
(* Gpro Serial Monitor (src/serial_monitor.py): the SerialReader thread,   *)
(* the SerialMonitor controller (connect / disconnect / send), the shared  *)
(* queue and stop event, and the 30 ms poll that drains the queue into the *)
(* console.                                                                *)
(*                                                                         *)
(* The UI thread runs one handler at a time (uiPc); reader threads run     *)
(* concurrently with it.  A handler is split only where another thread can *)
(* observably interleave: at reader.join(timeout=1.0) in disconnect_serial *)
(* and between two queue.get_nowait() calls in flush_queue.                *)
(*                                                                         *)
(* Strings are sequences of characters (one-character tokens, or a fixed   *)
(* fragment such as "[ERROR] " written as one token); bytes are integers.  *)
(***************************************************************************)
EXTENDS Integers, Sequences, FiniteSets, TLC

\* ------------------------------------------------------------ bounds
\* successful serial.Serial(...) opens (one handle and one reader thread each)
MaxOpens == 2
\* entries the reader threads put on the queue, all threads together
MaxEnq == 2
\* console blocks beyond which append_text is not exercised any more
MaxConsole == 1

\* ------------------------------------------------------------ values
\* Python's None, for self.ser and self.reader (handles and threads are
\* numbered from 1 in the order they are created)
None == 0

\* the absent timestamp of an error entry: (None, text)
TsNone == "<None>"

\* eol_box.addItems(["None", "\\n", "\\r", "\\r\\n"])
EolItems == {"None", "\\n", "\\r", "\\r\\n"}

\* texts the user types into send_edit: "U+00E9" is e-acute, "U+D800" a lone
\* surrogate (not encodable)
SendTexts == { <<"A", "T">>, <<"U+00E9", "U+D800">> }

\* the byte string readline() returns when it returns data: an undecodable
\* byte, "o", "\r\n"
RxLines == { <<255, 111, 13, 10>> }

VARIABLES
    ser,              \* self.ser: None or the handle
    reader,           \* self.reader: None or the thread
    queue,            \* self.queue: sequence of <<ts, text>>
    stop_event,       \* self.stop_event (threading.Event), shared by all readers
    connect_btn,      \* text of connect_btn
    port_box_enabled, \* port_box.isEnabled()
    status,           \* last message given to status.showMessage
    console,          \* blocks of the console, each a string
    send_edit,        \* text of send_edit
    eol_box,          \* eol_box.currentText()
    keep_text_chk,    \* keep_text_chk.isChecked()
    timestamps_chk,   \* timestamps_chk.isChecked()
    ports,            \* ports[h]: is_open of handle h, for every handle opened so far
    threads,          \* threads[t]: the SerialReader started t-th
    uiPc,             \* where the UI thread is
    tx,               \* the last ser.write that returned: <<handle, bytes>>
    file,             \* the file save_log writes: <<it exists, its bytes>>
    enqueued,         \* history: every entry put so far, with the thread that put it
                      \* and the handle it was read from
    displayed         \* history: every entry flush_queue took and appended

vars == <<ser, reader, queue, stop_event, connect_btn, port_box_enabled, status,
          console, send_edit, eol_box, keep_text_chk, timestamps_chk, ports,
          threads, uiPc, tx, file, enqueued, displayed>>

widgets == <<send_edit, eol_box, keep_text_chk, timestamps_chk>>
conn == <<ser, reader, stop_event, connect_btn, port_box_enabled, ports, threads>>

\* ------------------------------------------------------------ strings
Whitespace == {" ", "\n", "\r", "\t"}

\* str.rstrip()
RECURSIVE Rstrip(_)
Rstrip(s) ==
    IF s # <<>> /\ s[Len(s)] \in Whitespace
    THEN Rstrip(SubSeq(s, 1, Len(s) - 1))
    ELSE s

\* one byte of line.decode(errors="replace"), for the bytes of RxLines: ASCII
\* decodes to itself, a byte that starts no UTF-8 sequence to U+FFFD
DecodeByte(b) ==
    CASE b = 10 -> "\n"
      [] b = 13 -> "\r"
      [] b = 111 -> "o"
      [] OTHER -> "U+FFFD"

\* line.decode(errors="replace")
Decode(line) == [i \in 1..Len(line) |-> DecodeByte(line[i])]

\* one character of str.encode(errors="replace") (UTF-8)
EncodeChar(c) ==
    CASE c = "A" -> <<65>>
      [] c = "T" -> <<84>>
      [] c = "\n" -> <<10>>
      [] c = "\r" -> <<13>>
      [] c = "U+00E9" -> <<195, 169>>
      [] OTHER -> <<63>>

\* data.encode(errors="replace")
RECURSIVE Encode(_)
Encode(s) == IF s = <<>> THEN <<>> ELSE EncodeChar(Head(s)) \o Encode(Tail(s))

\* the characters a token of a console block stands for
Chars(tok) ==
    CASE tok = "] " -> <<"]", " ">>
      [] tok = "[ERROR] " -> <<"[", "E", "R", "R", "O", "R", "]", " ">>
      [] tok = "[ERROR] Could not open " ->
            <<"[", "E", "R", "R", "O", "R", "]", " ", "C", "o", "u", "l", "d", " ",
              "n", "o", "t", " ", "o", "p", "e", "n", " ">>
      [] tok = "[ERROR] send failed: " ->
            <<"[", "E", "R", "R", "O", "R", "]", " ", "s", "e", "n", "d", " ",
              "f", "a", "i", "l", "e", "d", ":", " ">>
      [] OTHER -> <<tok>>

\* a block as characters
RECURSIVE BlockChars(_)
BlockChars(b) == IF b = <<>> THEN <<>> ELSE Chars(Head(b)) \o BlockChars(Tail(b))

\* ToPlainText, with nothing between the blocks
RECURSIVE ToPlainTextNoBreaks(_)
ToPlainTextNoBreaks(blocks) ==
    IF blocks = <<>> THEN <<>>
    ELSE BlockChars(Head(blocks)) \o ToPlainTextNoBreaks(Tail(blocks))

\* console.toPlainText(): the blocks, one "\n" between two of them
RECURSIVE ToPlainText(_)
ToPlainText(blocks) ==
    IF blocks = <<>> THEN <<>>
    ELSE IF Len(blocks) = 1 THEN BlockChars(blocks[1])
    ELSE BlockChars(Head(blocks)) \o <<"\n">> \o ToPlainText(Tail(blocks))

\* the ASCII characters of the console, with their codes
Ascii ==
    ("\n" :> 10) @@ ("\r" :> 13) @@ (" " :> 32) @@ ("1" :> 49) @@ ("2" :> 50) @@
    ("3" :> 51) @@ ("4" :> 52) @@ ("5" :> 53) @@ (":" :> 58) @@ ("C" :> 67) @@
    ("E" :> 69) @@ ("O" :> 79) @@ ("R" :> 82) @@ ("[" :> 91) @@ ("]" :> 93) @@
    ("a" :> 97) @@ ("d" :> 100) @@ ("e" :> 101) @@ ("f" :> 102) @@ ("i" :> 105) @@
    ("l" :> 108) @@ ("n" :> 110) @@ ("o" :> 111) @@ ("p" :> 112) @@ ("s" :> 115) @@
    ("t" :> 116) @@ ("u" :> 117)

\* the character of an ASCII code
AsciiChar ==
    [b \in {Ascii[c] : c \in DOMAIN Ascii} |-> CHOOSE c \in DOMAIN Ascii : Ascii[c] = b]

\* one character written through open(path, "w", encoding="utf-8"): "\n" goes
\* out as the platform's line separator, the rest as its UTF-8 bytes
WriteChar(c, linesep) ==
    CASE c = "\n" -> linesep
      [] c = "U+FFFD" -> <<239, 191, 189>>
      [] OTHER -> <<Ascii[c]>>

\* f.write(text) on that file
RECURSIVE WriteText(_, _)
WriteText(text, linesep) ==
    IF text = <<>> THEN <<>>
    ELSE WriteChar(Head(text), linesep) \o WriteText(Tail(text), linesep)

\* open(path, encoding="utf-8").read(): UTF-8 decoded, "\r\n" and "\r" read
\* as "\n"
RECURSIVE ReadText(_)
ReadText(bytes) ==
    IF bytes = <<>> THEN <<>>
    ELSE IF bytes[1] = 13
    THEN <<"\n">> \o ReadText(IF Len(bytes) > 1 /\ bytes[2] = 10
                               THEN SubSeq(bytes, 3, Len(bytes))
                               ELSE Tail(bytes))
    ELSE IF bytes[1] = 239
    THEN <<"U+FFFD">> \o ReadText(SubSeq(bytes, 4, Len(bytes)))
    ELSE <<AsciiChar[bytes[1]]>> \o ReadText(Tail(bytes))

\* str.splitlines() of a text whose line breaks are "\n"
RECURSIVE SplitLines(_, _)
SplitLines(text, line) ==
    IF text = <<>> THEN (IF line = <<>> THEN <<>> ELSE <<line>>)
    ELSE IF Head(text) = "\n" THEN <<line>> \o SplitLines(Tail(text), <<>>)
    ELSE SplitLines(Tail(text), Append(line, Head(text)))

\* datetime.datetime.now().strftime("%H:%M:%S.%f")[:-3]: the wall clock, read
\* as a logical time that advances with every entry put
Now == ToString(Len(enqueued) + 1)

\* ------------------------------------------------------------ state functions
\* self.ser and self.ser.is_open
Connected == ser # None /\ ports[ser]

\* Thread.is_alive() of a started thread
is_alive(t) == threads[t].pc # "done"

\* port_box.count(): refresh_ports adds "(No ports found)" when the list is
\* empty, so the box never has zero items
port_box_count == 1

Init ==
    /\ ser = None
    /\ reader = None
    /\ queue = <<>>
    /\ stop_event = FALSE
    /\ connect_btn = "Connect"
    /\ port_box_enabled = TRUE
    /\ status = ""
    /\ console = <<>>
    /\ send_edit = <<>>
    /\ eol_box = "None"
    /\ keep_text_chk = FALSE
    /\ timestamps_chk = TRUE
    /\ ports = <<>>
    /\ threads = <<>>
    /\ uiPc = "idle"
    /\ tx = <<None, <<>>>>
    /\ file = <<FALSE, <<>>>>
    /\ enqueued = <<>>
    /\ displayed = <<>>

\* ------------------------------------------------------------ SerialReader
\* Put, putting at the head
PutFront(q, e) == <<e>> \o q

\* queue.Queue.put
Put(q, e) == Append(q, e)

\* AfterRead without the break
AfterReadNoBreak(outcome) == "loop"

\* where run() goes after a readline: back to the loop test, or out (break)
AfterRead(outcome) == IF outcome = "raise" THEN "done" ELSE "loop"

\* thread th after run() returned; the fields that only matter while it runs
\* are reset
Ended(th) ==
    [th EXCEPT !.pc = "done", !.reading = None, !.sawOpen = FALSE,
               !.stopReq = FALSE, !.further = FALSE]

\* self.ser of reader thread t, the handle its readline() is called on: the one
\* given to the constructor
ReadHandle(t) == threads[t].ser

\* while not self.stop_event.is_set(): the loop test of thread t, and the call
\* of self.ser.readline() when it passes (reading: the handle of that call,
\* sawOpen: whether it was open when the call was made).  stopReq and
\* further are history: whether disconnect_serial set the event while t was
\* alive, and whether t has had a read to make since (the one it was at when
\* the event was set, or one it went on to by passing the test)
ReaderLoop(t) ==
    /\ uiPc # "exited"
    /\ threads[t].pc = "loop"
    /\ LET th == threads[t]
       IN  threads' = [threads EXCEPT ![t] =
              IF stop_event
              THEN Ended(th)
              ELSE [th EXCEPT !.pc = "readline",
                              !.reading = ReadHandle(t),
                              !.sawOpen = ports[ReadHandle(t)],
                              !.further = th.stopReq]]
    /\ UNCHANGED <<ser, reader, queue, stop_event, connect_btn, port_box_enabled,
                   status, console, widgets, ports, uiPc, tx, file, enqueued, displayed>>

\* the body of the loop in thread t: self.ser.readline() returns nothing (read
\* timeout), returns a line, or raises.  A read of a handle that was closed
\* before the call raises (pyserial); a read that was under way may still
\* have returned.
ReaderRead(t, outcome, line) ==
    /\ uiPc # "exited"
    /\ threads[t].pc = "readline"
    /\ outcome # "raise" => threads[t].sawOpen
    /\ outcome # "empty" => Len(enqueued) < MaxEnq
    /\ LET e == CASE outcome = "line" -> <<Now, Decode(line)>>
                  [] outcome = "raise" -> <<TsNone, <<"[ERROR] ", "e", "\n">>>>
                  [] OTHER -> <<>>
       IN  IF outcome = "empty"
           THEN UNCHANGED <<queue, enqueued>>
           ELSE /\ queue' = Put(queue, e)
                /\ enqueued' = Append(enqueued,
                      [e |-> e, by |-> t, from |-> threads[t].reading])
    /\ threads' = [threads EXCEPT ![t] =
          IF AfterRead(outcome) = "done"
          THEN Ended(@)
          ELSE [@ EXCEPT !.pc = "loop", !.reading = None, !.sawOpen = FALSE]]
    /\ UNCHANGED <<ser, reader, stop_event, connect_btn, port_box_enabled,
                   status, console, widgets, ports, uiPc, tx, file, displayed>>

\* ------------------------------------------------------------ SerialMonitor
\* append_text: console.appendPlainText(text.rstrip())
append_text(text) == console' = Append(console, Rstrip(text))

\* open_failed, with the event cleared before the handle is opened
open_failed_clears_stop ==
    /\ append_text(<<"[ERROR] Could not open ", "e", "\n">>)
    /\ status' = "Failed to connect"
    /\ stop_event' = FALSE
    /\ UNCHANGED <<ser, reader, connect_btn, port_box_enabled, ports, threads>>

\* connect_serial when serial.Serial(...) raised: the error goes to the console
\* and to the status bar, and the method returns
open_failed ==
    /\ append_text(<<"[ERROR] Could not open ", "e", "\n">>)
    /\ status' = "Failed to connect"
    /\ UNCHANGED conn

\* connect_serial when serial.Serial(...) returned the handle: the shared event
\* is cleared and a new SerialReader is started on the handle
open_ok ==
    /\ ports' = Append(ports, TRUE)
    /\ ser' = Len(ports) + 1
    /\ stop_event' = FALSE
    /\ threads' = Append(threads,
          [ser |-> Len(ports) + 1, pc |-> "loop", reading |-> None,
           sawOpen |-> FALSE, stopReq |-> FALSE, further |-> FALSE])
    /\ reader' = Len(threads) + 1
    /\ connect_btn' = "Disconnect"
    /\ port_box_enabled' = FALSE
    /\ status' = "Connected"
    /\ UNCHANGED console

\* connect_serial; opened: whether serial.Serial(device, ...) returned a handle
connect_serial(opened) ==
    /\ opened => Len(ports) < MaxOpens
    /\ ~opened => Len(console) < MaxConsole
    /\ IF port_box_count = 0
       THEN /\ append_text(<<"[INFO] No ports to open.", "\n">>)
            /\ UNCHANGED <<conn, status>>
       ELSE IF ~opened THEN open_failed ELSE open_ok
    /\ UNCHANGED <<queue, widgets, uiPc, tx, file, enqueued, displayed>>

\* disconnect_serial up to the join: self.stop_event.set(), then the UI thread
\* waits in reader.join(timeout=1.0) (or goes straight on when there is no
\* live reader)
disconnect_set(next) ==
    /\ stop_event' = TRUE
    /\ threads' = [t \in 1..Len(threads) |->
          IF is_alive(t)
          THEN [threads[t] EXCEPT !.stopReq = TRUE,
                                  !.further = (threads[t].pc = "readline")]
          ELSE threads[t]]
    /\ uiPc' = next
    /\ UNCHANGED <<ser, reader, queue, connect_btn, port_box_enabled, status,
                   console, widgets, ports, tx, file, enqueued, displayed>>

\* Close, never called
CloseSkipped(ps, h, closed) == ps

\* ser.close() on handle h; closed: whether it left the handle closed (it did
\* not if it raised before that)
Close(ps, h, closed) == [ps EXCEPT ![h] = ~closed]

\* disconnect_rest, with self.queue replaced by a new, empty queue
disconnect_rest_new_queue(closed, next) ==
    /\ ports' = IF ser # None /\ ports[ser]
                THEN Close(ports, ser, closed)
                ELSE ports
    /\ reader' = None
    /\ ser' = None
    /\ connect_btn' = "Connect"
    /\ port_box_enabled' = TRUE
    /\ status' = "Disconnected"
    /\ uiPc' = next
    /\ queue' = <<>>
    /\ UNCHANGED <<stop_event, console, widgets, threads, tx, file, enqueued,
                   displayed>>

\* disconnect_serial from the return of the join (the thread ended, or the
\* timeout passed with the thread alive): close the handle (closed: whether
\* ser.close() left it closed; it may not have if it raised, and the exception
\* is swallowed), drop both references, reset the widgets
disconnect_rest(closed, next) ==
    /\ ports' = IF ser # None /\ ports[ser]
                THEN Close(ports, ser, closed)
                ELSE ports
    /\ reader' = None
    /\ ser' = None
    /\ connect_btn' = "Connect"
    /\ port_box_enabled' = TRUE
    /\ status' = "Disconnected"
    /\ uiPc' = next
    /\ UNCHANGED <<queue, stop_event, console, widgets, threads, tx, file, enqueued,
                   displayed>>

\* toggle_connection, clicked
toggle_connection ==
    /\ uiPc = "idle"
    /\ IF Connected
       THEN disconnect_set("join")
       ELSE \E opened \in BOOLEAN : connect_serial(opened)

\* toggle_connection, clicked, on a device that can be opened
toggle_connection_opened ==
    /\ uiPc = "idle"
    /\ IF Connected
       THEN disconnect_set("join")
       ELSE connect_serial(TRUE)

\* toggle_connection_joined, with a join that has no timeout
toggle_connection_joined_unbounded ==
    /\ uiPc = "join"
    /\ ~is_alive(reader)
    /\ \E raised \in BOOLEAN : disconnect_rest(~raised, "idle")

\* toggle_connection, after the join of its disconnect_serial: the join
\* returned (the reader ended or the 1.0 s passed) or raised, and either way
\* the method goes on
toggle_connection_joined ==
    /\ uiPc = "join"
    /\ \E raised \in BOOLEAN : disconnect_rest(~raised, "idle")

\* toggle_connection, after a join that returned because the reader ended
toggle_connection_joined_in_time ==
    /\ uiPc = "join"
    /\ ~is_alive(reader)
    /\ toggle_connection_joined

\* main: app.exec() returned (the window was closed)
main_exit ==
    /\ uiPc = "idle"
    /\ IF Connected
       THEN disconnect_set("exit_join")
       ELSE /\ uiPc' = "exited"
            /\ UNCHANGED <<conn, queue, status, console, widgets, tx, file, enqueued,
                           displayed>>

\* main: after the join of its disconnect_serial, then sys.exit(ret), which
\* ends the daemon reader threads with the process
main_exit_joined ==
    /\ uiPc = "exit_join"
    /\ \E raised \in BOOLEAN : disconnect_rest(~raised, "exited")

\* queue.Queue.get_nowait, the queue it leaves
Get(q) == Tail(q)

\* FormatEntry, testing the box only
FormatEntryStampsAll(ts, text) ==
    IF timestamps_chk
    THEN <<"[", ts, "] ">> \o Rstrip(text)
    ELSE Rstrip(text)

\* the block flush_queue appends for the entry (ts, text)
FormatEntry(ts, text) ==
    IF timestamps_chk /\ ts # TsNone
    THEN <<"[", ts, "] ">> \o Rstrip(text)
    ELSE Rstrip(text)

\* flush_queue, one turn of its loop: the timer fired (idle) or the loop came
\* round (flush); get_nowait raises queue.Empty and the loop ends, or gives the
\* entry at the head, which is appended to the console
flush_queue ==
    /\ uiPc \in {"idle", "flush"}
    /\ IF queue = <<>>
       THEN /\ uiPc' = "idle"
            /\ UNCHANGED <<queue, console, displayed>>
       ELSE /\ queue' = Get(queue)
            /\ console' = Append(console, FormatEntry(Head(queue)[1], Head(queue)[2]))
            /\ displayed' = Append(displayed, Head(queue))
            /\ uiPc' = "flush"
    /\ UNCHANGED <<conn, status, widgets, tx, file, enqueued>>

\* EolSuffix, with "\r\n" appended as "\n\r"
EolSuffixSwapped(eol) ==
    CASE eol = "\\n" -> <<"\n">>
      [] eol = "\\r" -> <<"\r">>
      [] eol = "\\r\\n" -> <<"\n", "\r">>
      [] OTHER -> <<>>

\* the characters send_text appends for the EOL choice
EolSuffix(eol) ==
    CASE eol = "\\n" -> <<"\n">>
      [] eol = "\\r" -> <<"\r">>
      [] eol = "\\r\\n" -> <<"\r", "\n">>
      [] OTHER -> <<>>

\* CanSend, not tested at all
CanSendAlways == TRUE

\* if not (self.ser and self.ser.is_open): the test send_text starts with
CanSend == Connected

\* write_ok, with the input cleared whatever the "Keep after send" box says
write_ok_always_clears(data) ==
    /\ tx' = <<ser, Encode(data)>>
    /\ send_edit' = <<>>
    /\ UNCHANGED <<console, status>>

\* send_text when self.ser.write(...) returned
write_ok(data) ==
    /\ tx' = <<ser, Encode(data)>>
    /\ send_edit' = IF keep_text_chk THEN send_edit ELSE <<>>
    /\ UNCHANGED <<console, status>>

\* write_failed, with the input cleared whether or not the write returned
write_failed_clears_input ==
    /\ append_text(<<"[ERROR] send failed: ", "e", "\n">>)
    /\ send_edit' = IF keep_text_chk THEN send_edit ELSE <<>>
    /\ UNCHANGED <<tx, status>>

\* send_text when self.ser.write(...) raised
write_failed ==
    /\ append_text(<<"[ERROR] send failed: ", "e", "\n">>)
    /\ UNCHANGED <<send_edit, tx, status>>

\* send_text; wrote: whether self.ser.write(...) returned (it raised if not)
send_text(wrote) ==
    /\ uiPc = "idle"
    /\ IF ~CanSend
       THEN /\ status' = "Not connected"
            /\ UNCHANGED <<console, send_edit, tx>>
       ELSE IF wrote
       THEN write_ok(send_edit \o EolSuffix(eol_box))
       ELSE /\ Len(console) < MaxConsole
            /\ write_failed
    /\ UNCHANGED <<conn, queue, eol_box, keep_text_chk, timestamps_chk, uiPc,
                   file, enqueued, displayed>>

\* clear_log, emptying the queue as well
clear_log_and_queue ==
    /\ uiPc = "idle"
    /\ console' = <<>>
    /\ queue' = <<>>
    /\ UNCHANGED <<conn, status, widgets, uiPc, tx, file, enqueued, displayed>>

\* clear_log
clear_log ==
    /\ uiPc = "idle"
    /\ console' = <<>>
    /\ UNCHANGED <<conn, queue, status, widgets, uiPc, tx, file, enqueued, displayed>>

\* the line separators open(path, "w") writes for "\n": POSIX, Windows
LineSeps == { <<10>>, <<13, 10>> }

\* save_log; outcome: the dialog was cancelled (no path), open() raised, the
\* file was opened (and so emptied) and the write raised, or the text was
\* written
save_log(outcome, linesep) ==
    /\ uiPc = "idle"
    /\ UNCHANGED <<conn, queue, console, widgets, uiPc, tx, enqueued, displayed>>
    /\ CASE outcome = "cancel" -> UNCHANGED <<file, status>>
         [] outcome = "open_failed" ->
               /\ status' = "Save failed"
               /\ UNCHANGED file
         [] outcome = "write_failed" ->
               /\ status' = "Save failed"
               /\ file' = <<TRUE, <<>>>>
         [] outcome = "saved" ->
               /\ status' = "Saved"
               /\ file' = <<TRUE, WriteText(ToPlainText(console), linesep)>>

\* the user types text into send_edit
edit_send(text) ==
    /\ uiPc = "idle"
    /\ send_edit' = text
    /\ UNCHANGED <<conn, queue, status, console, eol_box, keep_text_chk,
                   timestamps_chk, uiPc, tx, file, enqueued, displayed>>

\* the user picks an item of eol_box
select_eol(eol) ==
    /\ uiPc = "idle"
    /\ eol_box' = eol
    /\ UNCHANGED <<conn, queue, status, console, send_edit, keep_text_chk,
                   timestamps_chk, uiPc, tx, file, enqueued, displayed>>

\* the user clicks the "Keep after send" box
click_keep_text ==
    /\ uiPc = "idle"
    /\ keep_text_chk' = ~keep_text_chk
    /\ UNCHANGED <<conn, queue, status, console, send_edit, eol_box,
                   timestamps_chk, uiPc, tx, file, enqueued, displayed>>

\* the user clicks the "Timestamps" box
click_timestamps ==
    /\ uiPc = "idle"
    /\ timestamps_chk' = ~timestamps_chk
    /\ UNCHANGED <<conn, queue, status, console, send_edit, eol_box,
                   keep_text_chk, uiPc, tx, file, enqueued, displayed>>

\* every handler of the connection and the poll, with the reader threads
Next ==
    \/ toggle_connection
    \/ toggle_connection_joined
    \/ main_exit
    \/ main_exit_joined
    \/ flush_queue
    \/ \E t \in 1..Len(threads) : ReaderLoop(t)
    \/ \E t \in 1..Len(threads), o \in {"empty", "line", "raise"}, l \in RxLines :
          ReaderRead(t, o, l)

Spec == Init /\ [][Next]_vars

\* toggle_connection, after the join, with a close that returns normally
toggle_connection_closed ==
    /\ uiPc = "join"
    /\ disconnect_rest(TRUE, "idle")

\* main, after the join, with a close that returns normally
main_exit_closed ==
    /\ uiPc = "exit_join"
    /\ disconnect_rest(TRUE, "exited")

\* the handlers of Next on handles whose close() never raises
CloseOkNext ==
    \/ toggle_connection
    \/ toggle_connection_closed
    \/ main_exit
    \/ main_exit_closed
    \/ flush_queue
    \/ \E t \in 1..Len(threads) : ReaderLoop(t)
    \/ \E t \in 1..Len(threads), o \in {"empty", "line", "raise"}, l \in RxLines :
          ReaderRead(t, o, l)

CloseOkSpec == Init /\ [][CloseOkNext]_vars

\* the connection handlers and the reader threads, without the poll.  The
\* reader threads are under no fairness: a reader may stay in its read for
\* ever.  reader.join(timeout=1.0) returns within its timeout and ser.close()
\* returns or raises, so a disconnect_serial that has begun goes on.
ShutdownNext ==
    \/ toggle_connection
    \/ toggle_connection_joined
    \/ main_exit
    \/ main_exit_joined
    \/ \E t \in 1..Len(threads) : ReaderLoop(t)
    \/ \E t \in 1..Len(threads), o \in {"empty", "line", "raise"}, l \in RxLines :
          ReaderRead(t, o, l)

ShutdownSpec ==
    /\ Init /\ [][ShutdownNext]_vars
    /\ WF_vars(toggle_connection_joined)
    /\ WF_vars(main_exit_joined)

\* what save_log can meet
SaveOutcomes == {"cancel", "open_failed", "write_failed", "saved"}

\* every handler that writes the console or takes from the queue, and every
\* other handler in a run that leaves no bytes behind (a write that raises, a
\* save that writes nothing), with the reader threads; the reader ends within
\* the join's timeout
ConsoleNext ==
    \/ toggle_connection
    \/ toggle_connection_joined_in_time
    \/ flush_queue
    \/ clear_log
    \/ \E o \in SaveOutcomes \ {"saved"}, sep \in LineSeps : save_log(o, sep)
    \/ send_text(FALSE)
    \/ \E t \in 1..Len(threads) : ReaderLoop(t)
    \/ \E t \in 1..Len(threads), o \in {"empty", "line", "raise"}, l \in RxLines :
          ReaderRead(t, o, l)

ConsoleSpec == Init /\ [][ConsoleNext]_vars

\* the poll and the "Timestamps" box, on a device that can be opened and
\* whose close() returns normally
TimestampNext ==
    \/ toggle_connection_opened
    \/ toggle_connection_closed
    \/ flush_queue
    \/ click_timestamps
    \/ \E t \in 1..Len(threads) : ReaderLoop(t)
    \/ \E t \in 1..Len(threads), o \in {"empty", "line", "raise"}, l \in RxLines :
          ReaderRead(t, o, l)

TimestampSpec == Init /\ [][TimestampNext]_vars

\* the poll, the "Clear" and the "Save Log..." buttons, on a device that can be
\* opened and whose reader ends within the join's timeout
SaveNext ==
    \/ toggle_connection_opened
    \/ toggle_connection_joined_in_time
    \/ flush_queue
    \/ clear_log
    \/ \E o \in SaveOutcomes, sep \in LineSeps : save_log(o, sep)
    \/ \E t \in 1..Len(threads) : ReaderLoop(t)
    \/ \E t \in 1..Len(threads), o \in {"empty", "line", "raise"}, l \in RxLines :
          ReaderRead(t, o, l)

SaveSpec == Init /\ [][SaveNext]_vars

\* the connection handlers on a device that can be opened and whose close()
\* returns normally, the poll, the end of the event loop and the reader threads
DrainNext ==
    \/ toggle_connection_opened
    \/ toggle_connection_closed
    \/ main_exit
    \/ main_exit_closed
    \/ flush_queue
    \/ \E t \in 1..Len(threads) : ReaderLoop(t)
    \/ \E t \in 1..Len(threads), o \in {"empty", "line", "raise"}, l \in RxLines :
          ReaderRead(t, o, l)

\* DrainNext under the scheduling the event loop gives the handlers: the 30 ms
\* timer keeps firing between the user's clicks, so flush_queue runs again and
\* again whenever the UI thread is not inside another handler, and a
\* disconnect_serial that has begun goes on (the join is bounded).  The user
\* and the reader threads are under no fairness.
DrainSpec ==
    /\ Init /\ [][DrainNext]_vars
    /\ SF_vars(flush_queue)
    /\ WF_vars(toggle_connection_closed)
    /\ WF_vars(main_exit_closed)

\* the send row and the connect button, on a device that sends nothing and
\* whose reader ends within the join's timeout
SendNext ==
    \/ toggle_connection
    \/ toggle_connection_joined_in_time
    \/ \E text \in SendTexts : edit_send(text)
    \/ \E eol \in EolItems : select_eol(eol)
    \/ click_keep_text
    \/ \E wrote \in BOOLEAN : send_text(wrote)
    \/ \E t \in 1..Len(threads) : ReaderLoop(t)
    \/ \E t \in 1..Len(threads), l \in RxLines : ReaderRead(t, "empty", l)

SendSpec == Init /\ [][SendNext]_vars

\* ------------------------------------------------------------ claims
Threads == 1..Len(threads)
Alive == {t \in Threads : is_alive(t)}

\* the entries put so far, in the order of the put calls
Entries == [i \in 1..Len(enqueued) |-> enqueued[i].e]

\* the places in the history of the entries thread t put, and of its error entries
PutBy(t) == {i \in 1..Len(enqueued) : enqueued[i].by = t}
ErrorsBy(t) == {i \in PutBy(t) : enqueued[i].e[1] = TsNone}

\* the UI thread is inside disconnect_serial, at the join
InDisconnect == uiPc \in {"join", "exit_join"}

\* C1: at most one SerialReader thread is alive at any time, over every
\* interleaving of toggle_connection with the readers' loops.
C1_OneReaderAlive == Cardinality(Alive) <= 1

\* C2: the entries flush_queue has taken and appended are, at every moment, the
\* first entries put, in the order they were put, and the queue holds exactly
\* the rest: nothing is shown twice, nothing is skipped.  The blocks of the
\* console that came from the queue are these entries, formatted, in order.
IsQueueBlock(b) == b # <<>> => b[1] # "[ERROR] Could not open "
C2_Fifo ==
    /\ Len(displayed) <= Len(enqueued)
    /\ displayed = SubSeq(Entries, 1, Len(displayed))
    /\ queue = SubSeq(Entries, Len(displayed) + 1, Len(enqueued))
    /\ SelectSeq(console, IsQueueBlock)
         = [i \in 1..Len(displayed) |-> FormatEntry(displayed[i][1], displayed[i][2])]

\* C2's case: two entries put by two different reader threads have both been
\* displayed, the second one taken in a later turn of the loop than the first
C2_Witness ==
    /\ Len(displayed) = 2
    /\ enqueued[1].by # enqueued[2].by
    /\ queue = <<>>
    /\ uiPc = "flush"

C4_FailedOpen ==
    [][(uiPc = "idle" /\ ~Connected /\ connect_serial(FALSE))
         => /\ UNCHANGED <<threads, reader, stop_event, ser, ports, queue>>
            /\ connect_btn' = "Connect" /\ port_box_enabled'
            /\ console' = Append(console, <<"[ERROR] Could not open ", "e">>)
            /\ status' = "Failed to connect"
            /\ ~Connected']_vars

\* C4's case: an open failed after an earlier connection was closed (the stop
\* flag is still set from that disconnect)
C4_Witness ==
    /\ status = "Failed to connect"
    /\ console # <<>> /\ console[Len(console)] = <<"[ERROR] Could not open ", "e">>
    /\ stop_event /\ Len(ports) = 1 /\ ser = None /\ connect_btn = "Connect"

\* C5: every reader thread puts at most one error entry (absent timestamp), that
\* entry is the last one it puts, and having put it the thread has ended (the
\* read is not tried again).
C5_OneErrorThenExit ==
    \A t \in Threads :
        /\ Cardinality(ErrorsBy(t)) <= 1
        /\ \A i \in ErrorsBy(t) : \A j \in PutBy(t) : j <= i
        /\ ErrorsBy(t) # {} => threads[t].pc = "done"

\* C5's case: a thread has put a line and then its error entry
C5_Witness ==
    \E t \in Threads : \E i \in PutBy(t) : \E j \in ErrorsBy(t) :
        i < j /\ enqueued[i].e[1] # TsNone

\* C6: there is no state in which a reader has ended because of a read error
\* while the controller still holds that reader's open handle and presents
\* itself as connected.
C6_NoConnectionWithoutReader ==
    ~ \E t \in Threads :
        /\ threads[t].pc = "done" /\ ErrorsBy(t) # {}
        /\ uiPc = "idle" /\ reader = t /\ ser = threads[t].ser /\ ports[ser]
        /\ connect_btn = "Disconnect"

\* C7: while there is no open port handle, send_text writes nothing, leaves the
\* input field, the console, the queue and the connection as they are and only
\* shows "Not connected"; and whenever bytes are written, they are written to
\* the open handle the controller holds.
C7_SendNeedsConnection ==
    [][/\ \A wrote \in BOOLEAN :
            (~Connected /\ send_text(wrote))
              => /\ UNCHANGED <<tx, send_edit, console, queue, conn>>
                 /\ status' = "Not connected"
       /\ tx' # tx => (Connected /\ tx'[1] = ser)]_vars

\* C7's case: a send was tried, with text typed, after the connection was closed
C7_Witness ==
    /\ status = "Not connected" /\ ser = None /\ Len(ports) > 0
    /\ send_edit = <<"A", "T">>

\* C8: when the write raises in send_text, the handle stays open and held, the
\* reader thread is as it was, the stop flag stays clear, exactly one error
\* block is appended to the console, and the typed text and the EOL choice are
\* still there, so the same send can be made again.
C8_WriteFailure ==
    [][(Connected /\ send_text(FALSE))
         => /\ UNCHANGED <<ser, reader, ports, threads, connect_btn,
                           port_box_enabled, queue, tx, send_edit, eol_box>>
            /\ ~stop_event'
            /\ console' = Append(console, <<"[ERROR] send failed: ", "e">>)
            /\ Connected']_vars

\* C8's case: a write failed while the reader was running, and the text is still
\* in the input field
C8_Witness ==
    /\ Connected /\ is_alive(reader) /\ ~stop_event
    /\ console # <<>> /\ console[Len(console)] = <<"[ERROR] send failed: ", "e">>
    /\ send_edit = <<"A", "T">> /\ ~keep_text_chk

\* the bytes of the line ending each item of the EOL box stands for
EolBytes(eol) ==
    CASE eol = "None" -> <<>>
      [] eol = "\\n" -> <<10>>
      [] eol = "\\r" -> <<13>>
      [] eol = "\\r\\n" -> <<13, 10>>

\* C9: the bytes send_text writes are the encoded typed text followed by the
\* bytes of the selected line ending and nothing else; "AT" with \r\n is
\* written as A T CR LF, and with None as A T.
C9_Payload ==
    [][(Connected /\ send_text(TRUE))
         => /\ tx' = <<ser, Encode(send_edit) \o EolBytes(eol_box)>>
            /\ (send_edit = <<"A", "T">> /\ eol_box = "\\r\\n")
                  => tx'[2] = <<65, 84, 13, 10>>
            /\ (send_edit = <<"A", "T">> /\ eol_box = "None")
                  => tx'[2] = <<65, 84>>]_vars

\* C9's case: "AT" was sent with \r\n
C9_Witness == tx = <<ser, <<65, 84, 13, 10>>>> /\ eol_box = "\\r\\n" /\ Connected

\* C10: once disconnect_serial has set the stop flag while a reader thread was
\* running, that reader makes at most one further read: having made (or
\* finished) one read since the flag was set, it does not pass its loop test
\* again to begin another.
C10_OneFurtherRead ==
    [][\A t \in Threads :
          (threads[t].pc = "loop" /\ threads[t].stopReq /\ threads[t].further)
            => threads'[t].pc # "readline"]_vars
\* the Disconnected state of the controller
Disconnected ==
    /\ ser = None /\ reader = None /\ stop_event
    /\ connect_btn = "Connect" /\ port_box_enabled

\* C11: a disconnect_serial that has begun (the stop flag set, the UI thread at
\* the join) always completes, whatever the reader threads do and whether or
\* not the join or the close raises, and when it has completed the controller
\* holds no handle and no reader, the stop flag is set, the button reads
\* "Connect" and the port selector is enabled.
C11_ShutdownCompletes ==
    /\ InDisconnect ~> (~InDisconnect /\ Disconnected)
    /\ [][(InDisconnect /\ ~InDisconnect') => Disconnected']_vars

\* C11's case: disconnect_serial has completed although the reader it joined
\* is still inside its read and the close raised
C11_Witness ==
    /\ uiPc = "idle" /\ Disconnected /\ status = "Disconnected"
    /\ \E t \in Threads : threads[t].pc = "readline" /\ ports[threads[t].ser]
\* q2 is q1 with entries put at its end (or q1 itself)
Extends(q2, q1) == Len(q2) >= Len(q1) /\ SubSeq(q2, 1, Len(q1)) = q1

\* C12 as stated: flush_queue is the sole consumer of the queue and the sole
\* writer to the console: a step that takes an entry from the queue, or that
\* adds, removes or changes a console line, is a step of flush_queue.
C12_SoleWriter ==
    [][(~Extends(queue', queue) \/ console' # console) => flush_queue]_vars

\* C12 as amended: only flush_queue takes entries from the queue, and the
\* console is written only by handlers of the UI thread: flush_queue appends one
\* block for the entry it took, connect_serial appends one error block when the
\* open fails, send_text appends one error block when the write fails, and
\* clear_log empties the console.  A successful connect, disconnect_serial, a
\* send while not connected, save_log and the reader threads leave every
\* console line as it is, and the reader threads only add to the queue.
C12_ConsoleWriters ==
    [][/\ ~Extends(queue', queue) => flush_queue
       /\ console' # console
            => \/ flush_queue /\ queue # <<>>
                    /\ console' = Append(console,
                                         FormatEntry(Head(queue)[1], Head(queue)[2]))
               \/ uiPc = "idle" /\ ~Connected /\ connect_serial(FALSE)
                    /\ console' = Append(console, <<"[ERROR] Could not open ", "e">>)
               \/ Connected /\ send_text(FALSE)
                    /\ console' = Append(console, <<"[ERROR] send failed: ", "e">>)
               \/ clear_log
       /\ (console' # console \/ ~Extends(queue', queue))
            => /\ ~ \E t \in Threads :
                     \/ ReaderLoop(t)
                     \/ \E o \in {"empty", "line", "raise"}, l \in RxLines :
                           ReaderRead(t, o, l)
               /\ ~ \E o \in SaveOutcomes, sep \in LineSeps : save_log(o, sep)
               /\ ~ \E closed \in BOOLEAN, next \in {"join", "idle"} :
                     disconnect_set(next) \/ disconnect_rest(closed, next)
               /\ ~ (uiPc = "idle" /\ connect_serial(TRUE))
               /\ ~ (~Connected /\ send_text(FALSE))]_vars

\* C12's case: the console holds a block connect_serial wrote for a failed open
\* and, after it, a block flush_queue wrote for an entry of a reader thread
C12_Witness ==
    /\ Len(console) = 2
    /\ console[1] = <<"[ERROR] Could not open ", "e">>
    /\ displayed # <<>>
    /\ console[2] = FormatEntry(displayed[1][1], displayed[1][2])
\* the line of entry e with its "[timestamp] " prefix, and without
Stamped(e) == <<"[", e[1], "] ">> \o Rstrip(e[2])
Plain(e) == Rstrip(e[2])

\* C13: whatever the "Timestamps" box was set to and when, the console shows
\* the entries taken from the queue, all of them and in the order they were put,
\* one line each; the line flush_queue appends carries the "[timestamp] " prefix
\* exactly when the box is checked at that tick and the entry has a timestamp,
\* so an error entry (no timestamp) is shown without prefix in both settings;
\* and clicking the box changes no line, no entry and no order.
C13_TimestampsOnlyFormat ==
    /\ [](/\ displayed = SubSeq(Entries, 1, Len(displayed))
          /\ Len(console) = Len(displayed)
          /\ \A i \in 1..Len(console) :
                /\ console[i] \in {Stamped(displayed[i]), Plain(displayed[i])}
                /\ displayed[i][1] = TsNone => console[i] = Plain(displayed[i]))
    /\ [][/\ click_timestamps => UNCHANGED <<console, queue, displayed, enqueued>>
          /\ displayed' # displayed
               => /\ displayed' = Append(displayed, Head(queue))
                  /\ console' = Append(console,
                        IF timestamps_chk /\ Head(queue)[1] # TsNone
                        THEN Stamped(Head(queue))
                        ELSE Plain(Head(queue)))
                  /\ timestamps_chk' = timestamps_chk]_vars

\* C13's case: a line was displayed with the box checked, then the box was
\* unchecked, then an error entry was displayed
C13_Witness ==
    /\ Len(console) = 2 /\ ~timestamps_chk
    /\ displayed[1][1] # TsNone /\ console[1] = Stamped(displayed[1])
    /\ displayed[2][1] = TsNone /\ console[2] = Plain(displayed[2])
\* the visible lines of the console, as characters
VisibleLines == [i \in 1..Len(console) |-> BlockChars(console[i])]

C15_InputCleared ==
    [][\A wrote \in BOOLEAN :
          send_text(wrote)
            => send_edit' = IF Connected /\ wrote /\ ~keep_text_chk
                            THEN <<>>
                            ELSE send_edit]_vars

\* C15's case: "AT" was written with the box unchecked and the field is empty
C15_Witness ==
    /\ Connected /\ tx = <<ser, <<65, 84>>>> /\ ~keep_text_chk
    /\ send_edit = <<>> /\ console = <<>>
\* the placement of the entry a step has put, when thread t put it
PutNow(t) == Len(enqueued') > Len(enqueued) /\ enqueued'[Len(enqueued')].by = t

\* C16: every reader thread reads only the handle it was constructed
\* with, and no two threads were constructed with the same handle, so no handle
\* is read by two threads; what a reader that outlived its disconnect still
\* puts, also after a reconnect, comes from its own handle, which is not the
\* handle of the new connection and is closed.
C16_OwnClosedHandle ==
    /\ [](/\ \A t1, t2 \in Threads : t1 # t2 => threads[t1].ser # threads[t2].ser
          /\ \A t \in Threads :
                threads[t].pc = "readline" => threads[t].reading = threads[t].ser)
    /\ [][\A t \in Threads :
             (t # reader /\ ~InDisconnect /\ PutNow(t))
               => /\ enqueued'[Len(enqueued')].from = threads[t].ser
                  /\ enqueued'[Len(enqueued')].from # ser
                  /\ ~ports[threads[t].ser]]_vars

\* the handles that are open
OpenHandles == {h \in DOMAIN ports : ports[h]}

\* C17: at most one port handle opened by the application is open at any
\* time, over every sequence of connects, disconnects, open failures, read
\* errors and close failures.
C17_OneOpenHandle == Cardinality(OpenHandles) <= 1

\* a step of connect_serial or of disconnect_serial
ConnectOrDisconnect ==
    \/ toggle_connection
    \/ main_exit /\ uiPc' # "exited"
    \/ \E closed \in BOOLEAN, next \in {"idle", "exited"} :
          InDisconnect /\ disconnect_rest(closed, next)

\* C18 as stated: connect and disconnect leave the queue and the console
\* lines untouched, the entries are displayed in the order they were put, and
\* every entry put on the queue, before, during or after a disconnect, is
\* eventually displayed.  The entries put and the entries displayed only
\* grow, so "entry i, once put, is eventually displayed" is "again and again,
\* entry i has not been put or has been displayed".
C18_AllDisplayed ==
    /\ [][ConnectOrDisconnect => UNCHANGED <<queue, console>>]_vars
    /\ [](displayed = SubSeq(Entries, 1, Len(displayed)))
    /\ \A i \in 1..MaxEnq : []<>(Len(enqueued) < i \/ Len(displayed) >= i)

\* C18 as amended: a connect that opens the port and a disconnect leave the
\* queue and the console lines untouched, the entries are displayed in the
\* order they were put, and every entry put on the queue, before, during or
\* after a disconnect, is eventually displayed unless the window is closed
\* first (main's disconnect_serial runs after the event loop has ended, and no
\* poll follows it).
C18_DisplayedWhileRunning ==
    /\ [][ConnectOrDisconnect => UNCHANGED <<queue, console>>]_vars
    /\ [](displayed = SubSeq(Entries, 1, Len(displayed)))
    /\ \A i \in 1..MaxEnq :
          []<>(Len(enqueued) < i \/ Len(displayed) >= i \/ uiPc = "exited")

\* C18's case: the reader of the first connection outlived its disconnect and
\* put an entry after the reader of the next connection had put one, hence
\* after its own disconnect had returned, and both entries were displayed
C18_Witness ==
    /\ uiPc # "exited"
    /\ Len(enqueued) = 2 /\ Len(displayed) = 2
    /\ enqueued[1].by = 2 /\ enqueued[2].by = 1
====
